---- MODULE Spec2Model ----
(***************************************************************************)
(* shadcn-import-helper: the import scanner, the installed-component       *)
(* oracle with its cache, the pending queue and the install drain, as the  *)
(* event loop of the extension host runs them.  src/src/extension.ts holds *)
(* two variants of the extension: lines 1-448 (componentFolders, a list:   *)
(* "rich") and lines 450-846 (componentFolder, one name: "minimal").       *)
(* One step of the model is one task of the event loop: the code from the  *)
(* delivery of an awaited result to the next await of an I/O operation.    *)
(***************************************************************************)
EXTENDS Integers, Sequences, FiniteSets, TLC

(***************************************************************************)
(* Bounds of the model.                                                    *)
(***************************************************************************)
\* user commands invoked in one run (scan triggers and install requests)
MaxTriggers == 3
\* changes made by the environment in one run (settings, disk, workspace)
MaxChanges == 1
\* import statements in a document handed to parseImports
MaxStatements == 2

(***************************************************************************)
(* The universe the inputs are drawn from.                                 *)
(***************************************************************************)
Variants == {"rich", "minimal"}
Components == {"button", "card"}
FolderNames == {"ui", "shadcn"}
FolderLists == {<<"shadcn">>, <<"ui", "shadcn">>}
PackageManagers == {"npm", "pnpm", "bun"}
Extensions == <<"tsx", "jsx">>

Range(s) == {s[i] : i \in DOMAIN s}
Contains(s, x) == \E i \in DOMAIN s : s[i] = x
\* [...new Set(list)]: the first occurrence of each element, in order
RECURSIVE Dedupe(_)
Dedupe(s) ==
    IF s = <<>> THEN <<>>
    ELSE LET front == Dedupe(SubSeq(s, 1, Len(s) - 1))
             last == s[Len(s)]
         IN IF Contains(front, last) THEN front ELSE Append(front, last)

(***************************************************************************)
(* Settings.  A setting is <<>> when the user's settings do not set it and *)
(* <<v>> when they set it to v; config.get(key, default) is Get.           *)
(* A pattern is the list of folder alternatives its text accepts after     *)
(* "@/components/": the generated pattern is built from the folder list    *)
(* joined with "|".                                                        *)
(***************************************************************************)
Get(setting, default) == IF setting = <<>> THEN default ELSE setting[1]

GeneratedRegex(componentFolders) == [folderPattern |-> componentFolders]
ShadcnRegex == [folderPattern |-> <<"shadcn">>]
\* a pattern the user wrote by hand
CustomRegex == [folderPattern |-> <<"custom-ui">>]
\* a pattern the user has set that has an unclosed group
MalformedRegex == [folderPattern |-> <<"(">>]

\* whether pattern regex matches an import from "@/components/<folder>/..."
Recognises(regex, folder) == Contains(regex.folderPattern, folder)

\* new RegExp(config.importRegex, "g") returns; it throws a SyntaxError otherwise
CompilesAlways(regex) == TRUE
Compiles(regex) == ~Contains(regex.folderPattern, "(")

VARIABLES
    variant,            \* which of the two variants of extension.ts runs
    settings,           \* the shadcnImportHelper section of the user's settings
    currentConfig,      \* let currentConfig (rich variant)
    pendingUpdates,     \* config.update calls issued and not yet applied
    workspaceFolders,   \* vscode.workspace.workspaceFolders, <<>> for undefined
    componentsJson,     \* whether <root>/components.json exists
    disk,               \* the component files that exist under <root>/components
    cache,              \* ComponentCache.cache
    pendingComponents,  \* ComponentManager.pendingComponents, in insertion order
    statusBarItem,      \* ComponentManager.statusBarItem: shown, and its count
    isInstalling,       \* ComponentManager.isInstalling
    drains,             \* the calls of installPendingComponents past the guard
    terminal,           \* every text handed to terminal.sendText, in order
    scans,              \* the running call of each scan command
    lastMessage,        \* the message the latest task showed to the user, if any
    userRegex,          \* history: the importRegex the user last set, <<>> if none
    userFolders,        \* history: whether the user has set the folder setting
    staleEntries,       \* history: entries that rest on a stat made before a clear removed them
    known,              \* history: the answer of the last completed installed-check
    triggers,           \* number of commands invoked so far
    changes,            \* number of environment changes so far
    tree,               \* the directories under the workspace roots and their entries
    document,           \* the text of a document handed to parseImports
    imports             \* <<>>, or <<r>> once parseImports(document) returned r

vars == <<variant, settings, currentConfig, pendingUpdates, workspaceFolders,
          componentsJson, disk, cache, pendingComponents, statusBarItem,
          isInstalling, drains, terminal, scans, lastMessage, userRegex,
          userFolders, staleEntries, known, triggers, changes, tree,
          document, imports>>

\* a message shown to the user; found and queued are the counts it reports
Message(text) == [text |-> text, found |-> 0, queued |-> 0]

(***************************************************************************)
(* getConfig                                                               *)
(***************************************************************************)
GetConfigRich(s) ==
    LET componentFolders == Get(s.componentFolders, <<"ui">>)
        generatedRegex == GeneratedRegex(componentFolders)
    IN [componentFolders |-> componentFolders,
        importRegex |-> Get(s.importRegex, generatedRegex),
        packageManager |-> Get(s.packageManager, "npm")]

\* the minimal variant has one folder: componentFolders is the list of it
GetConfigMinimal(s) ==
    [componentFolders |-> <<Get(s.componentFolder, "shadcn")>>,
     importRegex |-> Get(s.importRegex, ShadcnRegex),
     packageManager |-> Get(s.packageManager, "npm")]

GetConfig(s) == IF variant = "rich" THEN GetConfigRich(s) ELSE GetConfigMinimal(s)

\* getConfig assigns the module variable currentConfig (rich variant only)
CurrentConfigAfterGetConfig ==
    IF variant = "rich" THEN GetConfigRich(settings) ELSE currentConfig

(***************************************************************************)
(* ComponentCache                                                          *)
(***************************************************************************)
EmptyCache == [c \in {} |-> TRUE]
CacheHas(c) == c \in DOMAIN cache
CacheSetAbsent(m, c, installed) == [d \in DOMAIN m \cup {c} |-> IF d = c THEN FALSE ELSE m[d]]
CacheSet(m, c, installed) ==
    [d \in DOMAIN m \cup {c} |-> IF d = c THEN installed ELSE m[d]]

ClearCacheOfInstalled == [c \in {d \in DOMAIN cache : ~cache[d]} |-> FALSE]
ClearCache == EmptyCache

(***************************************************************************)
(* ComponentManager: the pending queue and the status bar item             *)
(***************************************************************************)
UpdateStatusBarItemShowOnly(pending, item) ==
    [shown |-> item.shown \/ Len(pending) > 0,
     count |-> IF Len(pending) > 0 THEN Len(pending) ELSE item.count]
UpdateStatusBarItem(pending, item) ==
    IF Len(pending) > 0
    THEN [shown |-> TRUE, count |-> Len(pending)]
    ELSE [shown |-> FALSE, count |-> item.count]

\* !vscode.workspace.workspaceFolders
AlwaysWorkspaceFolders == FALSE
NoWorkspaceFolders == workspaceFolders = <<>>

\* Set.add: appends the component unless it is already a member
SetAddOnly(pending, component) == <<component>>
SetAdd(pending, component) ==
    IF Contains(pending, component) THEN pending ELSE Append(pending, component)

(***************************************************************************)
(* The configuration listeners of activate, and updateRegexFromFolders.    *)
(* key is the setting the change event affects ("other": a setting outside *)
(* the shadcnImportHelper section); s is the settings after the change.    *)
(***************************************************************************)
ExtensionKeys == {"componentFolders", "componentFolder", "importRegex", "packageManager"}

\* the config.update("importRegex", newRegex) calls updateRegexFromFolders issues
UpdateRegexFromFolders(s, config) ==
    LET componentFolders == Get(s.componentFolders, <<"ui">>)
        newRegex == GeneratedRegex(componentFolders)
    IN IF newRegex # config.importRegex THEN <<newRegex>> ELSE <<>>

\* the listener registered first (rich variant)
FirstConfigurationListener(s, key, config) ==
    [updates |-> IF key = "componentFolders"
                 THEN UpdateRegexFromFolders(s, config) ELSE <<>>,
     currentConfig |-> GetConfigRich(s)]

\* the listener registered last (rich variant)
SecondListenerKeepsConfig(s, key, config) ==
    [updates |-> IF key \in ExtensionKeys
                 THEN UpdateRegexFromFolders(s, config) ELSE <<>>,
     currentConfig |-> currentConfig,
     cache |-> IF key \in ExtensionKeys THEN ClearCache ELSE cache,
     cleared |-> key \in ExtensionKeys,
     message |-> Message("")]
SecondConfigurationListener(s, key, config) ==
    IF key \in ExtensionKeys
    THEN [updates |-> UpdateRegexFromFolders(s, config),
          currentConfig |-> GetConfigRich(s),
          cache |-> ClearCache,
          cleared |-> TRUE,
          message |-> Message("configuration updated")]
    ELSE [updates |-> <<>>, currentConfig |-> config, cache |-> cache,
          cleared |-> FALSE, message |-> Message("")]

\* the only configuration listener of the minimal variant
MinimalConfigurationListener(key) ==
    IF key \in ExtensionKeys
    THEN [updates |-> <<>>, currentConfig |-> currentConfig,
          cache |-> ClearCache, cleared |-> TRUE,
          message |-> Message("configuration updated")]
    ELSE [updates |-> <<>>, currentConfig |-> currentConfig, cache |-> cache,
          cleared |-> FALSE, message |-> Message("")]

\* the file <root>/components/<dir>/<name>.<ext>
ComponentFile(dir, name, ext) == [dir |-> dir, name |-> name, ext |-> ext]

\* a component file of the component exists in a configured component folder
OnDisk(files, config, c) ==
    \E f \in Range(config.componentFolders), e \in Range(Extensions) :
        ComponentFile(<<f>>, c, e) \in files

\* history: the components still on disk under settings s and disk files
StillOnDisk(running, files, s) ==
    [t \in DOMAIN running |->
        [running[t] EXCEPT !.onDisk = {c \in @ : OnDisk(files, GetConfig(s), c)}]]

\* history: a clear that removes the entry of a component overtakes the
\* installed-checks of that component whose stat is in flight
Overtaken(cleared, s) ==
    StillOnDisk([t \in DOMAIN scans |->
                    IF /\ cleared
                       /\ scans[t].pc = "check"
                       /\ scans[t].components[scans[t].idx] \in DOMAIN cache
                    THEN [scans[t] EXCEPT !.preClear = TRUE] ELSE scans[t]],
                disk, s)
NoneKnown == [c \in Components |-> "none"]

\* history: a file or a setting changed, or a drain completed
Changed(running) ==
    [t \in DOMAIN running |->
        [running[t] EXCEPT !.clean = (running[t].pc = "idle"), !.rerun = FALSE]]

\* onDidChangeConfiguration fires: the listeners run in registration order
FireConfigurationChange(s, key) ==
    LET first == FirstConfigurationListener(s, key, currentConfig)
        second == IF variant = "rich"
                  THEN SecondConfigurationListener(s, key, first.currentConfig)
                  ELSE MinimalConfigurationListener(key)
        issued == IF variant = "rich" THEN first.updates \o second.updates ELSE <<>>
    IN /\ currentConfig' = second.currentConfig
       /\ pendingUpdates' = pendingUpdates \o issued
       /\ cache' = second.cache
       /\ lastMessage' = second.message
       /\ staleEntries' = IF second.cleared THEN {} ELSE staleEntries
       /\ known' = IF second.cleared THEN NoneKnown ELSE known
       /\ scans' = Changed(Overtaken(second.cleared, s))

\* every task of the event loop runs after the microtasks of the one before
MicrotasksDrained ==
    /\ \A i \in DOMAIN drains : drains[i].pc = "waiting"
    /\ \A t \in DOMAIN scans : scans[t].pc # "done"

SettingValues(key) ==
    CASE key = "componentFolders" -> {<<f>> : f \in FolderLists} \cup {<<>>}
      [] key = "componentFolder" -> {<<f>> : f \in FolderNames} \cup {<<>>}
      [] key = "importRegex" -> {<<CustomRegex>>, <<MalformedRegex>>, <<>>}
      [] key = "packageManager" -> {<<p>> : p \in PackageManagers \ {"npm"}} \cup {<<>>}

UserKeys ==
    IF variant = "rich" THEN {"componentFolders", "importRegex", "packageManager"}
    ELSE {"componentFolder", "importRegex", "packageManager"}

\* the user edits one setting of the extension
UserUpdatesSetting(key, value) ==
    /\ MicrotasksDrained
    /\ changes < MaxChanges
    /\ key \in UserKeys
    /\ value \in SettingValues(key)
    /\ settings[key] # value
    /\ settings' = [settings EXCEPT ![key] = value]
    /\ FireConfigurationChange(settings', key)
    /\ userRegex' = IF key = "importRegex" THEN value ELSE userRegex
    /\ userFolders' = (userFolders \/ key \in {"componentFolders", "componentFolder"})
    /\ changes' = changes + 1
    /\ UNCHANGED <<variant, tree, document, imports, workspaceFolders, componentsJson, disk,
                   pendingComponents, statusBarItem, isInstalling, drains,
                   terminal, triggers>>

\* the user edits a setting of another section
OtherConfigurationChange ==
    /\ MicrotasksDrained
    /\ changes < MaxChanges
    /\ FireConfigurationChange(settings, "other")
    /\ changes' = changes + 1
    /\ UNCHANGED <<variant, tree, document, imports, settings, workspaceFolders, componentsJson, disk,
                   pendingComponents, statusBarItem, isInstalling, drains,
                   terminal, userRegex, userFolders, triggers>>

\* a config.update issued by updateRegexFromFolders is applied; the change
\* event fires when the value changed, and the awaiting call then reports
ApplyUpdate ==
    /\ MicrotasksDrained
    /\ pendingUpdates # <<>>
    /\ LET newRegex == Head(pendingUpdates)
           s == [settings EXCEPT !.importRegex = <<newRegex>>]
           first == FirstConfigurationListener(s, "importRegex", currentConfig)
           second == SecondConfigurationListener(s, "importRegex", first.currentConfig)
           fires == settings.importRegex # <<newRegex>>
       IN /\ settings' = s
          /\ pendingUpdates' = Tail(pendingUpdates) \o
                               (IF fires THEN first.updates \o second.updates ELSE <<>>)
          /\ currentConfig' = IF fires THEN second.currentConfig ELSE currentConfig
          /\ cache' = IF fires THEN second.cache ELSE cache
          /\ staleEntries' = IF fires THEN {} ELSE staleEntries
          /\ known' = IF fires THEN NoneKnown ELSE known
          /\ scans' = Changed(Overtaken(fires, s))
          /\ lastMessage' = Message("regex updated")
    /\ UNCHANGED <<variant, tree, document, imports, workspaceFolders, componentsJson, disk,
                   pendingComponents, statusBarItem, isInstalling, drains,
                   terminal, userRegex, userFolders, triggers, changes>>

WorkspaceFolderLists == {<<>>, <<"app">>, <<"app", "lib">>}

\* onDidChangeWorkspaceFolders
WorkspaceFoldersChange(folders) ==
    /\ MicrotasksDrained
    /\ changes < MaxChanges
    /\ folders \in WorkspaceFolderLists
    /\ folders # workspaceFolders
    /\ workspaceFolders' = folders
    /\ cache' = ClearCache
    /\ staleEntries' = {}
    /\ known' = NoneKnown
    /\ scans' = Overtaken(TRUE, settings)
    /\ changes' = changes + 1
    /\ lastMessage' = Message("")
    /\ UNCHANGED <<variant, tree, document, imports, settings, currentConfig, pendingUpdates,
                   componentsJson, disk, pendingComponents, statusBarItem,
                   isInstalling, drains, terminal, userRegex,
                   userFolders, triggers>>

(***************************************************************************)
(* The disk: component files come and go (the installer run in the         *)
(* terminal writes them, the user deletes them), and so does               *)
(* components.json.                                                        *)
(***************************************************************************)
DiskUniverse ==
    {ComponentFile(<<f>>, "button", "tsx") : f \in FolderNames}
        \cup {ComponentFile(<<"ui">>, "card", "jsx")}

DiskChange(file) ==
    /\ MicrotasksDrained
    /\ changes < MaxChanges
    /\ file \in DiskUniverse
    /\ disk' = IF file \in disk THEN disk \ {file} ELSE disk \cup {file}
    /\ known' = NoneKnown
    /\ scans' = Changed(StillOnDisk(scans, disk', settings))
    /\ changes' = changes + 1
    /\ lastMessage' = Message("")
    /\ UNCHANGED <<variant, tree, document, imports, settings, currentConfig, pendingUpdates,
                   workspaceFolders, componentsJson, cache, pendingComponents,
                   statusBarItem, isInstalling, drains, terminal,
                   userRegex, userFolders, staleEntries, triggers>>

ComponentsJsonChange ==
    /\ MicrotasksDrained
    /\ changes < MaxChanges
    /\ componentsJson' = ~componentsJson
    /\ changes' = changes + 1
    /\ lastMessage' = Message("")
    /\ UNCHANGED <<variant, tree, document, imports, settings, currentConfig, pendingUpdates,
                   workspaceFolders, disk, cache, pendingComponents,
                   statusBarItem, isInstalling, drains, terminal, scans,
                   userRegex, userFolders, staleEntries, known,
                   triggers>>

(***************************************************************************)
(* installPendingComponents and installComponents.  A drain is a call of   *)
(* installPendingComponents that passed both guards:                       *)
(*   pc "waiting":  in installComponents, awaiting the 5 s progress timer; *)
(*   pc "resolved": installComponents returned, the continuation of the    *)
(*                  await is the next microtask;                           *)
(*   pc "rejected": installComponents threw, the catch is the next         *)
(*                  microtask.                                             *)
(* components is the local of that name.                                   *)
(***************************************************************************)
\* Array.from(pendingComponents).join(" "), as the list of its words
JoinFirstComponent(pending) == <<pending[1]>>
JoinComponents(pending) == pending

NoInstallInProgress == FALSE
InstallInProgress == isInstalling

InstallLastFolder(config) == config.componentFolders[Len(config.componentFolders)]
InstallFolder(config) ==
    IF config.componentFolders = <<>> \/ config.componentFolders[1] = ""
    THEN "ui" ELSE config.componentFolders[1]

ComponentPath(config) == "components/" \o InstallFolder(config)

\* the switch on config.packageManager, as the list of the command's words
InstallCommand(packageManager, components, componentPath) ==
    CASE packageManager = "pnpm" ->
            <<"pnpm", "dlx", "shadcn-ui@latest", "add">> \o components
                \o <<"--path", componentPath>>
      [] packageManager = "bun" ->
            <<"bunx", "shadcn-ui@latest", "add">> \o components
                \o <<"--path", componentPath>>
      [] OTHER ->
            <<"npx", "shadcn-ui@latest", "add">> \o components
                \o <<"--path", componentPath>>

\* cd "<rootPath>" && <installCommand>
SendText(rootPath, installCommand) == <<"cd", rootPath, "&&">> \o installCommand

DropDrain(i) == [j \in 1..(Len(drains) - 1) |-> IF j < i THEN drains[j] ELSE drains[j + 1]]

\* history: another task changed the queue under the running scans
Disturbed(except) ==
    [t \in DOMAIN scans |->
        IF t # except /\ scans[t].pc # "idle"
        THEN [scans[t] EXCEPT !.alone = FALSE] ELSE scans[t]]

\* the finally block of installPendingComponents
FinallyKeepsFlagOnError(drain) == drain.pc = "rejected"
Finally(drain) == FALSE

\* this.pendingComponents.size === 0
SomethingPending == FALSE
NothingPending == Len(pendingComponents) = 0

\* the command extension.installPendingShadcnComponents; sendTextThrows is
\* whether the hand-off to the terminal fails
InstallPendingComponents(sendTextThrows) ==
    /\ MicrotasksDrained
    /\ triggers < MaxTriggers
    /\ triggers' = triggers + 1
    /\ IF NothingPending
       THEN /\ lastMessage' = Message("No pending shadcn components to install.")
            /\ UNCHANGED <<isInstalling, drains, terminal, currentConfig>>
       ELSE IF InstallInProgress
       THEN /\ lastMessage' = Message("Component installation is already in progress.")
            /\ UNCHANGED <<isInstalling, drains, terminal, currentConfig>>
       ELSE LET components == JoinComponents(pendingComponents)
                config == GetConfig(settings)
                text == SendText(workspaceFolders[1],
                                 InstallCommand(config.packageManager, components,
                                                ComponentPath(config)))
                drain == [components |-> components]
            IN /\ isInstalling' = TRUE
               /\ IF NoWorkspaceFolders
                  THEN /\ drains' = Append(drains, drain @@ [pc |-> "rejected"])
                       /\ lastMessage' = Message("")
                       /\ UNCHANGED <<terminal, currentConfig>>
                  ELSE /\ terminal' = Append(terminal, text)
                       /\ currentConfig' = CurrentConfigAfterGetConfig
                       /\ IF sendTextThrows
                          THEN /\ drains' = Append(drains,
                                      drain @@ [pc |-> "resolved"])
                               /\ lastMessage' = Message("Error installing components: sendText")
                          ELSE /\ drains' = Append(drains,
                                      drain @@ [pc |-> "waiting"])
                               /\ lastMessage' = Message("")
    /\ UNCHANGED <<variant, tree, document, imports, settings, pendingUpdates, workspaceFolders,
                   componentsJson, disk, cache, pendingComponents, statusBarItem,
                   scans, userRegex, userFolders, staleEntries, known, changes>>

\* the setTimeout of withProgress fires; installComponents returns
ProgressTimer(i) ==
    /\ MicrotasksDrained
    /\ i \in DOMAIN drains
    /\ drains[i].pc = "waiting"
    /\ drains' = [drains EXCEPT ![i].pc = "resolved"]
    /\ lastMessage' = Message("Components installed successfully in componentPath")
    /\ UNCHANGED <<variant, tree, document, imports, settings, currentConfig, pendingUpdates,
                   workspaceFolders, componentsJson, disk, cache,
                   pendingComponents, statusBarItem, isInstalling, terminal,
                   scans, userRegex, userFolders, staleEntries, known, triggers,
                   changes>>

\* installPendingComponents after its await: the rest of the try block, or the
\* catch block, and then the finally block
InstallResume(i) ==
    /\ i \in DOMAIN drains
    /\ drains[i].pc \in {"resolved", "rejected"}
    /\ IF drains[i].pc = "resolved"
       THEN /\ pendingComponents' = <<>>
            /\ statusBarItem' = UpdateStatusBarItem(<<>>, statusBarItem)
            /\ lastMessage' = Message("Components installed successfully.")
            /\ scans' = Changed(Disturbed("none"))
       ELSE /\ lastMessage' = Message("Error installing components: No workspace folder found")
            /\ UNCHANGED <<pendingComponents, statusBarItem, scans>>
    /\ isInstalling' = Finally(drains[i])
    /\ drains' = DropDrain(i)
    /\ UNCHANGED <<variant, tree, document, imports, settings, currentConfig, pendingUpdates,
                   workspaceFolders, componentsJson, disk, cache, terminal,
                   userRegex, userFolders, staleEntries, known, triggers, changes>>

(***************************************************************************)
(* The source files the scans read: a fixed tree under the workspace roots *)
(* "app" and "lib".  A document is the list of the import statements its   *)
(* text holds: the folder after "@/components/", the imported symbols      *)
(* (capture group 1) and the component file (capture group 2).             *)
(***************************************************************************)
Entry(name, ext, type) == [name |-> name, ext |-> ext, type |-> type]

\* every entry a directory of the projects considered may hold, in the order
\* readDirectory lists them
Entries(uri) ==
    CASE uri = "app" -> <<Entry("App.tsx", "tsx", "File"),
                          Entry("notes.md", "md", "File"),
                          Entry("pages", "", "Directory")>>
      [] uri = "app/pages" -> <<Entry("Home.jsx", "jsx", "File"),
                                Entry("admin", "", "Directory")>>
      [] uri = "app/pages/admin" -> <<Entry("users", "", "Directory")>>
      [] uri = "app/pages/admin/users" -> <<Entry("List.tsx", "tsx", "File")>>
      [] uri = "lib" -> <<Entry("Nav.tsx", "tsx", "File")>>
      [] OTHER -> <<>>

\* the names of the directories on the way from a workspace root to uri
Chain(uri) ==
    CASE uri = "app/pages" -> {"pages"}
      [] uri = "app/pages/admin" -> {"pages", "admin"}
      [] uri = "app/pages/admin/users" -> {"pages", "admin", "users"}
      [] OTHER -> {}

\* the project in which, of all entries, those named in names exist
TreeOf(names) ==
    LET exists(entry) == entry.name \in names
    IN [uri \in {d \in {"app", "app/pages", "app/pages/admin",
                        "app/pages/admin/users", "lib"} : Chain(d) \subseteq names}
            |-> SelectSeq(Entries(uri), exists)]

\* the projects considered: directories nested up to three levels deep under
\* the root, empty directories, directories without a source file
Trees ==
    {TreeOf(names \cup {"notes.md"}) :
        names \in SUBSET {"App.tsx", "pages", "Home.jsx", "admin", "users",
                          "List.tsx", "Nav.tsx"}}

\* the project the commands run in unless said otherwise
SourceTree == TreeOf({"App.tsx", "notes.md", "pages", "Home.jsx", "Nav.tsx"})

ReadDirectory(uri) == IF uri \in DOMAIN tree THEN tree[uri] ELSE <<>>

IsDirectory(uri) == uri \in DOMAIN tree

Import(folder, symbols, file) == [folder |-> folder, symbols |-> symbols, file |-> file]

GetText(uri) ==
    CASE uri = "app/App.tsx" -> <<Import("ui", <<"Button">>, "button")>>
      [] uri = "app/notes.md" -> <<Import("ui", <<"Card">>, "card"),
                                   Import("ui", <<"Button">>, "button")>>
      [] uri = "app/pages/Home.jsx" ->
            <<Import("shadcn", <<"Card", "CardHeader">>, "card"),
              Import("ui", <<"Button">>, "button")>>
      [] uri = "lib/Nav.tsx" -> <<Import("ui", <<"Button">>, "button")>>
      [] uri = "app/pages/admin/users/List.tsx" ->
            <<Import("ui", <<"Card">>, "card"), Import("shadcn", <<"Card">>, "card")>>
      [] OTHER -> <<>>

JoinPath(uri, name) == uri \o "/" \o name

\* the module specifier of an import after "@/components/<folder>/": the
\* directories it goes through, the name of the component file, and the
\* extension it is written with ("" when none)
Specifier(segments, name, ext) == [segments |-> segments, name |-> name, ext |-> ext]

\* capture group 2, ([^"']+): the specifier's text up to the closing quote
RECURSIVE Capture(_)
Capture(specifier) ==
    IF specifier.segments # <<>>
    THEN Head(specifier.segments) \o "/"
            \o Capture([specifier EXCEPT !.segments = Tail(@)])
    ELSE IF specifier.ext # "" THEN specifier.name \o "." \o specifier.ext
    ELSE specifier.name

\* an import statement as it is written: its match is Import with the
\* captured text
Statement(folder, symbols, specifier) ==
    Import(folder, symbols, Capture(specifier)) @@ [specifier |-> specifier]

Specifiers ==
    {Specifier(<<>>, "button", ""), Specifier(<<>>, "card", ""),
     Specifier(<<"forms">>, "input", ""), Specifier(<<>>, "button", "tsx")}

Statements ==
    {Statement(folder, symbols, specifier) :
        folder \in FolderNames, symbols \in {<<"A", "B">>, <<"C">>},
        specifier \in Specifiers}

\* the texts of up to MaxStatements import statements
Documents == UNION {[1..n -> Statements] : n \in 0..MaxStatements}

\* what the user may right-click; "untitled:" is a uri whose scheme is not file
ScanTargets == {"app", "app/App.tsx", "app/notes.md", "untitled:"}

(***************************************************************************)
(* parseImports and scanDirectory                                          *)
(***************************************************************************)
RECURSIVE Concat(_)
Concat(lists) == IF lists = <<>> THEN <<>> ELSE Head(lists) \o Concat(Tail(lists))

\* the while loop over importRegex.exec(text), then [...new Set(components)]
ParseImportsPushed(text, importRegex) ==
    LET pushed(match) ==
            IF Recognises(importRegex, match.folder)
            THEN [n \in 1..Len(match.symbols) |-> match.file]
            ELSE <<>>
    IN Concat([n \in 1..Len(text) |-> pushed(text[n])])
ParseImports(text, importRegex) ==
    LET pushed(match) ==
            IF Recognises(importRegex, match.folder)
            THEN [n \in 1..Len(match.symbols) |-> match.file]
            ELSE <<>>
    IN Dedupe(Concat([n \in 1..Len(text) |-> pushed(text[n])]))

\* parseImports(document) is called and returns
ParseDocument ==
    /\ imports = <<>>
    /\ Compiles(GetConfig(settings).importRegex)
    /\ imports' = <<ParseImports(document, GetConfig(settings).importRegex)>>
    /\ currentConfig' = CurrentConfigAfterGetConfig
    /\ UNCHANGED <<variant, tree, document, settings, pendingUpdates,
                   workspaceFolders, componentsJson, disk, cache,
                   pendingComponents, statusBarItem, isInstalling, drains,
                   terminal, scans, lastMessage, userRegex, userFolders,
                   staleEntries, known, triggers, changes>>

\* the entries of a directory the loop of scanDirectory acts on, in order
EligibleTsx(entry) ==
    \/ entry.type = "File" /\ entry.ext = "tsx"
    \/ entry.type = "Directory"
Eligible(entry) ==
    \/ entry.type = "File" /\ (entry.ext = "tsx" \/ entry.ext = "jsx")
    \/ entry.type = "Directory"

ScanDirectoryEntries(uri) ==
    LET kept == SelectSeq(ReadDirectory(uri), Eligible)
    IN [n \in 1..Len(kept) |-> JoinPath(uri, kept[n].name)]

(***************************************************************************)
(* checkComponentInstalled: the paths it stats, in order.  It answers true *)
(* at the first that exists and false when none does.                      *)
(***************************************************************************)
ProbesRich(componentFolders, componentName) ==
    [n \in 1..(2 * Len(componentFolders)) |->
        IF n % 2 = 1
        THEN ComponentFile(<<componentFolders[(n + 1) \div 2]>>, componentName, "tsx")
        ELSE ComponentFile(componentFolders, componentName, "jsx")]

ProbesMinimal(componentFolder, componentName) ==
    <<ComponentFile(<<componentFolder>>, componentName, "tsx"),
      ComponentFile(<<componentFolder>>, componentName, "jsx")>>

Probes(config, componentName) ==
    IF variant = "rich" THEN ProbesRich(config.componentFolders, componentName)
    ELSE ProbesMinimal(config.componentFolders[1], componentName)

\* vscode.workspace.fs.stat resolves
Stat(file) == file \in disk

(***************************************************************************)
(* The scan commands.  A scan is the running call of a command:            *)
(*   pc "stat":  awaiting fs.stat(uri);                                    *)
(*   pc "walk":  in scanDirectory or at openTextDocument; work lists the   *)
(*               files and directories still to read, in the order of the  *)
(*               recursion;                                                *)
(*   pc "check": in the loop over components, awaiting the stat of         *)
(*               probes[k] for components[idx]; exists is its result;      *)
(*   pc "done":  the loop is over and the message shown; the return of the *)
(*               handler is the next microtask.                            *)
(* History fields: before (the pending set when the command started),      *)
(* notInstalled (the components the oracle answered false for), alone (no  *)
(* other task changed the queue meanwhile), onDisk (the components on disk *)
(* ever since the command started), prior (the answer known when the check *)
(* began), preClear (a clear removed the entry of the component while the  *)
(* check was in flight), clean (no file, no setting changed and no drain   *)
(* completed since the command started), rerun and last (the command ran   *)
(* to its end before, with the candidates last, and no file, no setting    *)
(* changed and no drain completed since it started then), roots (the uri   *)
(* or the workspace roots the command was started on).                     *)
(***************************************************************************)
FileScan == "installShadcnComponents"
WorkspaceScan == "scanWorkspaceForShadcnComponents"
ScanCommands == {FileScan, WorkspaceScan}

IdleScan ==
    [pc |-> "idle", work |-> <<>>, components |-> <<>>, idx |-> 0,
     probes |-> <<>>, k |-> 0, exists |-> FALSE, newComponentsCount |-> 0,
     before |-> {}, notInstalled |-> {}, alone |-> TRUE, onDisk |-> {},
     prior |-> "none", preClear |-> FALSE,
     clean |-> TRUE, rerun |-> FALSE, last |-> {}, roots |-> <<>>]

\* the workspace scan of the rich variant calls checkComponentInstalled itself
UsesCache(t) == ~(variant = "rich" /\ t = WorkspaceScan)

\* ComponentCache.isInstalled after its await: cache.set(componentName, installed)
Store(st, t, c, installed) ==
    [st EXCEPT
        !.cache = IF UsesCache(t) THEN CacheSet(st.cache, c, installed) ELSE @,
        !.stale = IF ~UsesCache(t) THEN @
                  ELSE IF st.preClear THEN @ \cup {c} ELSE @ \ {c},
        !.known = [@ EXCEPT ![c] = IF installed THEN "yes" ELSE "no"]]

\* if (!installed) componentManager.addComponent(component), and the counter
ReconcileAlways(st, t, c, installed) ==
    [st EXCEPT !.pending = SetAdd(@, c),
               !.bar = UpdateStatusBarItem(SetAdd(st.pending, c), @)]
Reconcile(st, t, c, installed) ==
    IF installed THEN st
    ELSE [st EXCEPT
            !.pending = SetAdd(@, c),
            !.bar = UpdateStatusBarItem(SetAdd(st.pending, c), @),
            !.newComponentsCount =
                IF variant = "rich" /\ t = WorkspaceScan THEN @ + 1 ELSE @]

Decide(st, t, c, installed) ==
    [Reconcile(st, t, c, installed) EXCEPT
        !.notInstalled = IF installed THEN @ ELSE @ \cup {c}]

\* the loop over components from index i, up to its next await of a stat
RECURSIVE RunLoop(_, _, _)
RunLoop(t, i, st) ==
    IF i > Len(st.components)
    THEN [st EXCEPT !.pc = "done", !.idx = 0,
                    !.probes = <<>>, !.k = 0, !.exists = FALSE]
    ELSE LET c == st.components[i]
             config == GetConfig(settings)
             probes == Probes(config, c)
         IN IF UsesCache(t) /\ c \in DOMAIN st.cache
            THEN RunLoop(t, i + 1, Decide(st, t, c, st.cache[c]))
            ELSE IF NoWorkspaceFolders \/ probes = <<>>
            THEN RunLoop(t, i + 1,
                         Decide(Store([st EXCEPT !.gotConfig = TRUE, !.preClear = FALSE],
                                      t, c, FALSE), t, c, FALSE))
            ELSE [st EXCEPT !.pc = "check", !.idx = i, !.probes = probes,
                            !.k = 1, !.exists = Stat(probes[1]),
                            !.prior = st.known[c], !.preClear = FALSE,
                            !.gotConfig = TRUE]

\* the state a step of scan t starts from
StepState(t) ==
    scans[t] @@ [pending |-> pendingComponents, bar |-> statusBarItem,
                 cache |-> cache, known |-> known, stale |-> staleEntries,
                 gotConfig |-> FALSE, error |-> ""]

FinishTexts ==
    {"Components added to installation queue.",
     "No new shadcn components found to install.",
     "Found shadcn components."}

FinishMessage(t, st) ==
    IF t = FileScan
    THEN IF Len(st.components) > 0
         THEN Message("Components added to installation queue.")
         ELSE Message("No new shadcn components found to install.")
    ELSE [text |-> "Found shadcn components.", found |-> Len(st.components),
          queued |-> IF variant = "rich" THEN st.newComponentsCount
                     ELSE Len(st.pending)]

\* the variables a step of scan t assigns, from the state st it ends in
Commit(t, st) ==
    /\ pendingComponents' = st.pending
    /\ statusBarItem' = st.bar
    /\ cache' = st.cache
    /\ known' = st.known
    /\ staleEntries' = st.stale
    /\ currentConfig' = IF st.gotConfig THEN CurrentConfigAfterGetConfig ELSE currentConfig
    /\ lastMessage' = IF st.error # "" THEN Message(st.error)
                      ELSE IF st.pc = "done" THEN FinishMessage(t, st)
                      ELSE Message("")
    /\ LET others == IF Range(st.pending) # Range(pendingComponents)
                     THEN Disturbed(t) ELSE scans
       IN scans' = [others EXCEPT ![t] = [f \in DOMAIN IdleScan |-> st[f]]]

\* an exception leaves the scan: the handler of the file scan rejects with
\* it, the workspace scan catches it and shows it
Throw(t, st, error) ==
    [st EXCEPT !.pc = "done",
               !.error = IF t = FileScan THEN error
                         ELSE "Error scanning workspace: " \o error]

InvalidRegularExpression == "Invalid regular expression"
EntryNotFound == "EntryNotFound (FileSystemError)"

Started(t, work) ==
    [scans[t] EXCEPT !.work = work,
                     !.roots = work,
                     !.before = Range(pendingComponents),
                     !.onDisk = {c \in Components : OnDisk(disk, GetConfig(settings), c)}]

\* the command extension.installShadcnComponents, up to its first await;
\* answer is the user's reply to the offer to initialise shadcn-ui
InstallShadcnComponents(uri, answer) ==
    /\ MicrotasksDrained
    /\ triggers < MaxTriggers
    /\ scans[FileScan].pc = "idle"
    /\ uri \in ScanTargets
    /\ answer \in {"Yes", "No"}
    /\ triggers' = triggers + 1
    /\ IF NoWorkspaceFolders
       THEN /\ lastMessage' = Message("No workspace folder found. Please open a project folder.")
            /\ UNCHANGED <<terminal, scans>>
       ELSE IF ~componentsJson
       THEN IF answer = "Yes"
            THEN /\ terminal' = Append(terminal,
                        <<"cd", workspaceFolders[1], "&&", "npx", "shadcn-ui@latest", "init">>)
                 /\ lastMessage' = Message("Please complete the shadcn-ui initialization")
                 /\ UNCHANGED scans
            ELSE /\ lastMessage' = Message("shadcn-ui does not appear to be initialized")
                 /\ UNCHANGED <<terminal, scans>>
       ELSE IF uri # "untitled:"
       THEN /\ scans' = [scans EXCEPT ![FileScan] = [Started(FileScan, <<uri>>) EXCEPT !.pc = "stat"]]
            /\ lastMessage' = Message("")
            /\ UNCHANGED terminal
       ELSE /\ lastMessage' = Message("Please right-click on a file or folder in the Explorer view.")
            /\ UNCHANGED <<terminal, scans>>
    /\ UNCHANGED <<variant, tree, document, imports, settings, currentConfig, pendingUpdates,
                   workspaceFolders, componentsJson, disk, cache,
                   pendingComponents, statusBarItem, isInstalling, drains,
                   userRegex, userFolders, staleEntries, known, changes>>

\* fs.stat(uri) resolves: scanDirectory(uri) or openTextDocument(uri) is called
StatResolves ==
    /\ MicrotasksDrained
    /\ scans[FileScan].pc = "stat"
    /\ scans' = [scans EXCEPT ![FileScan].pc = "walk"]
    /\ lastMessage' = Message("")
    /\ UNCHANGED <<variant, tree, document, imports, settings, currentConfig, pendingUpdates,
                   workspaceFolders, componentsJson, disk, cache,
                   pendingComponents, statusBarItem, isInstalling, drains,
                   terminal, userRegex, userFolders, staleEntries,
                   known, triggers, changes>>

\* the command extension.scanWorkspaceForShadcnComponents, up to its first await
ScanWorkspaceForShadcnComponents ==
    /\ MicrotasksDrained
    /\ triggers < MaxTriggers
    /\ scans[WorkspaceScan].pc = "idle"
    /\ triggers' = triggers + 1
    /\ IF NoWorkspaceFolders
       THEN /\ lastMessage' = Message("Error scanning workspace: No workspace folder found")
            /\ UNCHANGED scans
       ELSE /\ scans' = [scans EXCEPT ![WorkspaceScan] =
                            [Started(WorkspaceScan, workspaceFolders) EXCEPT !.pc = "walk"]]
            /\ lastMessage' = Message("")
    /\ UNCHANGED <<variant, tree, document, imports, settings, currentConfig, pendingUpdates,
                   workspaceFolders, componentsJson, disk, cache,
                   pendingComponents, statusBarItem, isInstalling, drains,
                   terminal, userRegex, userFolders, staleEntries, known, changes>>

\* readDirectory or openTextDocument resolves for the head of work; after the
\* last one the loop over the components found starts
WalkStep(t) ==
    /\ MicrotasksDrained
    /\ t \in ScanCommands
    /\ scans[t].pc = "walk"
    /\ LET st == StepState(t)
           uri == Head(st.work)
           importRegex == GetConfig(settings).importRegex
           read == IF IsDirectory(uri)
                   THEN [st EXCEPT !.work = ScanDirectoryEntries(uri) \o Tail(@)]
                   ELSE [st EXCEPT
                           !.work = Tail(@),
                           !.components = @ \o ParseImports(GetText(uri), importRegex),
                           !.gotConfig = TRUE]
       IN IF ~IsDirectory(uri) /\ ~Compiles(importRegex)
          THEN Commit(t, Throw(t, [st EXCEPT !.gotConfig = TRUE],
                               InvalidRegularExpression))
          ELSE IF read.work # <<>>
          THEN Commit(t, read)
          ELSE Commit(t, RunLoop(t, 1, [read EXCEPT !.components = Dedupe(@)]))
    /\ UNCHANGED <<variant, tree, document, imports, settings, pendingUpdates, workspaceFolders,
                   componentsJson, disk, isInstalling, drains, terminal,
                   userRegex, userFolders, triggers, changes>>

\* readDirectory or openTextDocument rejects for the head of work: the file
\* or directory has gone; nothing in scanDirectory or scanWorkspace catches
ReadFails(t) ==
    /\ MicrotasksDrained
    /\ t \in ScanCommands
    /\ scans[t].pc = "walk"
    /\ Commit(t, Throw(t, StepState(t), EntryNotFound))
    /\ UNCHANGED <<variant, tree, document, imports, settings, pendingUpdates, workspaceFolders,
                   componentsJson, disk, isInstalling, drains, terminal,
                   userRegex, userFolders, triggers, changes>>

\* the stat of probes[k] resolves or rejects inside checkComponentInstalled
CheckStep(t) ==
    /\ MicrotasksDrained
    /\ t \in ScanCommands
    /\ scans[t].pc = "check"
    /\ LET st == StepState(t)
           c == st.components[st.idx]
           answered(installed) ==
               RunLoop(t, st.idx + 1,
                       Decide(Store(st, t, c, installed), t, c, installed))
       IN IF st.exists
          THEN Commit(t, answered(TRUE))
          ELSE IF st.k < Len(st.probes)
          THEN Commit(t, [st EXCEPT !.k = @ + 1, !.exists = Stat(st.probes[st.k + 1])])
          ELSE Commit(t, answered(FALSE))
    /\ UNCHANGED <<variant, tree, document, imports, settings, pendingUpdates, workspaceFolders,
                   componentsJson, disk, isInstalling, drains, terminal,
                   userRegex, userFolders, triggers, changes>>

\* the handler of the command returns
ScanReturns(t) ==
    /\ t \in ScanCommands
    /\ scans[t].pc = "done"
    /\ scans' = [scans EXCEPT ![t] =
                    [IdleScan EXCEPT
                        !.rerun = scans[t].clean /\ lastMessage.text \in FinishTexts,
                        !.last = Range(scans[t].components)]]
    /\ lastMessage' = Message("")
    /\ UNCHANGED <<variant, tree, document, imports, settings, currentConfig, pendingUpdates,
                   workspaceFolders, componentsJson, disk, cache,
                   pendingComponents, statusBarItem, isInstalling, drains,
                   terminal, userRegex, userFolders, staleEntries, known,
                   triggers, changes>>

(***************************************************************************)
(* The specification                                                       *)
(***************************************************************************)
NoSettings ==
    [componentFolders |-> <<>>, componentFolder |-> <<>>, importRegex |-> <<>>,
     packageManager |-> <<>>]

\* the state after activate, in a project with settings s and component files
InitWith(s, files, directories, text) ==
    /\ variant \in Variants
    /\ tree = directories
    /\ document = text
    /\ imports = <<>>
    /\ settings = s
    /\ currentConfig = GetConfig(s)
    /\ pendingUpdates = <<>>
    /\ workspaceFolders = <<"app">>
    /\ componentsJson = TRUE
    /\ disk = files
    /\ cache = EmptyCache
    /\ pendingComponents = <<>>
    /\ statusBarItem = [shown |-> FALSE, count |-> 0]
    /\ isInstalling = FALSE
    /\ drains = <<>>
    /\ terminal = <<>>
    /\ scans = [t \in ScanCommands |-> IdleScan]
    /\ lastMessage = Message("")
    /\ userRegex = <<>>
    /\ userFolders = FALSE
    /\ staleEntries = {}
    /\ known = NoneKnown
    /\ triggers = 0
    /\ changes = 0

InitIn(s, files) == InitWith(s, files, SourceTree, <<>>)

Init == InitIn(NoSettings, {})

\* activate in a project that has component files and whose folder setting
\* the user has set before
InitProject ==
    \E files \in SUBSET DiskUniverse :
        \/ /\ variant = "rich"
           /\ \E folders \in SettingValues("componentFolders") :
                 InitIn([NoSettings EXCEPT !.componentFolders = folders], files)
        \/ /\ variant = "minimal"
           /\ \E folder \in SettingValues("componentFolder") :
                 InitIn([NoSettings EXCEPT !.componentFolder = folder], files)

ScanSteps ==
    \/ \E uri \in ScanTargets, answer \in {"Yes", "No"} : InstallShadcnComponents(uri, answer)
    \/ StatResolves
    \/ ScanWorkspaceForShadcnComponents
    \/ \E t \in ScanCommands : WalkStep(t)
    \/ \E t \in ScanCommands : CheckStep(t)
    \/ \E t \in ScanCommands : ScanReturns(t)

DrainSteps ==
    \/ \E sendTextThrows \in BOOLEAN : InstallPendingComponents(sendTextThrows)
    \/ \E i \in DOMAIN drains : ProgressTimer(i)
    \/ \E i \in DOMAIN drains : InstallResume(i)

SettingsSteps ==
    \/ \E key \in ExtensionKeys : \E value \in SettingValues(key) :
            UserUpdatesSetting(key, value)
    \/ OtherConfigurationChange
    \/ ApplyUpdate

WorkspaceSteps == \E folders \in WorkspaceFolderLists : WorkspaceFoldersChange(folders)

DiskSteps == \E file \in DiskUniverse : DiskChange(file)

\* the extension in its whole environment
Next ==
    \/ ScanSteps
    \/ DrainSteps
    \/ SettingsSteps
    \/ WorkspaceSteps
    \/ DiskSteps
    \/ ComponentsJsonChange

Spec == Init /\ [][Next]_vars

\* the commands alone, while workspace folders are opened and closed: the
\* settings, the component files and components.json stay as they are
NextDrain == ScanSteps \/ DrainSteps \/ WorkspaceSteps

SpecDrain == Init /\ [][NextDrain]_vars

\* the progress timer fires and the microtasks of the event loop run
FairDrain ==
    /\ SpecDrain
    /\ WF_vars(\E i \in DOMAIN drains : ProgressTimer(i))
    /\ WF_vars(\E i \in DOMAIN drains : InstallResume(i))
    /\ WF_vars(\E t \in ScanCommands : ScanReturns(t))

\* the scans and the oracle, while component files come and go and workspace
\* folders are opened and closed
NextOracle == ScanSteps \/ DrainSteps \/ DiskSteps \/ WorkspaceSteps

SpecOracle == Init /\ [][NextOracle]_vars

\* the scans, while the files they read may go
FaultSteps == \E t \in ScanCommands : ReadFails(t)

NextFaults == ScanSteps \/ FaultSteps

SpecFaults == Init /\ [][NextFaults]_vars

\* the scans alone, in a project as it is found
SpecProject == InitProject /\ [][ScanSteps]_vars

\* the scans in a project as it is found, while workspace folders are opened
\* and closed
NextRerun == ScanSteps \/ WorkspaceSteps

SpecRerun == InitProject /\ [][NextRerun]_vars

\* the scans in each of the projects, while workspace folders are opened and
\* closed
InitTree == \E directories \in Trees : InitWith(NoSettings, {}, directories, <<>>)

NextTree == ScanSteps \/ WorkspaceSteps

SpecTree == InitTree /\ [][NextTree]_vars

\* parseImports on a document, under the folder setting the user has set
InitMatcher ==
    \E text \in Documents :
        \/ /\ variant = "rich"
           /\ \E folders \in SettingValues("componentFolders") :
                 InitWith([NoSettings EXCEPT !.componentFolders = folders], {},
                          SourceTree, text)
        \/ /\ variant = "minimal"
           /\ InitWith(NoSettings, {}, SourceTree, text)

NextMatcher == ParseDocument

SpecMatcher == InitMatcher /\ [][NextMatcher]_vars

\* the scans while the user edits settings; an update that was issued is
\* applied, and a handler that has shown its message returns
NextSettle == ScanSteps \/ SettingsSteps

FairSettle ==
    /\ Init
    /\ [][NextSettle]_vars
    /\ WF_vars(ApplyUpdate)
    /\ WF_vars(\E t \in ScanCommands : ScanReturns(t))

\* activate with the package manager and the folder setting the user has set
\* before
InitInstall ==
    \E packageManager \in SettingValues("packageManager") :
        \/ /\ variant = "rich"
           /\ \E folders \in SettingValues("componentFolders") :
                 InitIn([NoSettings EXCEPT !.componentFolders = folders,
                                           !.packageManager = packageManager], {})
        \/ /\ variant = "minimal"
           /\ \E folder \in SettingValues("componentFolder") :
                 InitIn([NoSettings EXCEPT !.componentFolder = folder,
                                           !.packageManager = packageManager], {})

\* the scan and install commands under each package manager and folder setting
NextInstall == ScanSteps \/ DrainSteps

SpecInstall == InitInstall /\ [][NextInstall]_vars

(***************************************************************************)
(* Properties of the install-drain                                         *)
(***************************************************************************)
\* the component names a command text lists: its words between "add" and "--path"
CommandComponents(text) ==
    LET add == CHOOSE i \in DOMAIN text : text[i] = "add"
        path == CHOOSE i \in DOMAIN text : text[i] = "--path"
    IN SubSeq(text, add + 1, path - 1)

AlreadyInProgress == "Component installation is already in progress."

\* C1: a request to install the pending components that arrives while a drain
\* is in flight is dropped with the informational message: no text reaches the
\* terminal, and the pending queue, the in-flight flag and the drain in flight
\* stay as they are; at most one drain is ever in flight.
C1_MutualExclusion ==
    /\ [](Len(drains) <= 1)
    /\ [][(drains # <<>> /\ \E sendTextThrows \in BOOLEAN :
                                InstallPendingComponents(sendTextThrows))
            => /\ lastMessage'.text = AlreadyInProgress
               /\ UNCHANGED <<terminal, pendingComponents, statusBarItem,
                              isInstalling, drains>>]_vars

C1_Witness ==
    /\ Len(drains) = 1
    /\ drains[1].pc = "waiting"
    /\ lastMessage.text = AlreadyInProgress

\* C2: whenever the in-flight flag is set it is cleared again, whether the
\* drain completes, the hand-off to the terminal fails or there is no
\* workspace folder; with no drain in flight the flag is false, so that a
\* request made then is never answered "already in progress".
C2_FlagCleared ==
    /\ isInstalling ~> ~isInstalling
    /\ [](drains = <<>> => ~isInstalling)
    /\ [][(drains = <<>> /\ \E sendTextThrows \in BOOLEAN :
                                InstallPendingComponents(sendTextThrows))
            => lastMessage'.text # AlreadyInProgress]_vars

C2_Witness ==
    /\ lastMessage.text = "Error installing components: No workspace folder found"
    /\ drains = <<>>
    /\ ~isInstalling
    /\ pendingComponents # <<>>

\* C3: a drain that starts with a workspace folder open hands exactly one text
\* to the terminal, which lists the pending queue in order; its later steps
\* hand over nothing; when it completes the queue is empty and the status bar
\* item hidden.
C3_DrainEmitsQueue ==
    [][/\ (Len(drains') > Len(drains) /\ workspaceFolders # <<>>)
            => /\ pendingComponents # <<>>
               /\ Len(terminal') = Len(terminal) + 1
               /\ SubSeq(terminal', 1, Len(terminal)) = terminal
               /\ CommandComponents(terminal'[Len(terminal')]) = pendingComponents
       /\ (drains' # drains /\ Len(drains') <= Len(drains))
            => terminal' = terminal
       /\ (Len(drains') < Len(drains) /\ drains[1].pc = "resolved")
            => /\ pendingComponents' = <<>>
               /\ ~statusBarItem'.shown]_vars

C3_Witness ==
    /\ lastMessage.text = "Components installed successfully."
    /\ terminal # <<>>
    /\ Len(CommandComponents(terminal[Len(terminal)])) = 2
    /\ pendingComponents = <<>>
    /\ ~statusBarItem.shown

(***************************************************************************)
(* Properties of the scans and of the oracle                               *)
(***************************************************************************)
Finished(t) == scans[t].pc = "done"

\* C4 as stated: when a scan finishes, the pending queue holds what it held
\* when the scan started and the candidates the oracle answered false for.
C4_AsStated ==
    \A t \in ScanCommands :
        Finished(t) =>
            Range(pendingComponents) = scans[t].before \cup scans[t].notInstalled

\* C4: when a scan finishes and no other command changed the pending queue
\* while it ran, the queue holds what it held when the scan started and the
\* candidates the oracle answered false for, and nothing else; those are
\* candidates of the scan.
C4_Reconciliation ==
    \A t \in ScanCommands :
        (Finished(t) /\ scans[t].alone) =>
            /\ Range(pendingComponents) = scans[t].before \cup scans[t].notInstalled
            /\ scans[t].notInstalled \subseteq Range(scans[t].components)

C4_Witness ==
    \E t \in ScanCommands :
        /\ Finished(t)
        /\ scans[t].alone
        /\ scans[t].before # {}
        /\ scans[t].notInstalled \ scans[t].before # {}
        /\ Range(scans[t].components) \ scans[t].notInstalled # {}

\* scan t takes this step
Acting(t) ==
    <<scans'[t].pc, scans'[t].work, scans'[t].idx, scans'[t].k>>
        # <<scans[t].pc, scans[t].work, scans[t].idx, scans[t].k>>

\* C5: a scan never adds to the pending queue a component whose file has
\* been on disk, in a configured component folder, ever since the scan
\* started.
C5_NeverQueuesInstalled ==
    [][\A t \in ScanCommands :
          Acting(t) =>
              (Range(pendingComponents') \ Range(pendingComponents))
                  \cap scans[t].onDisk = {}]_vars

\* C6: an installed-check starts its stats only for a component no check has
\* answered for since the cache was last cleared and the disk last changed,
\* and a cached answer is the answer of the last such check.
C6_Memoized ==
    /\ \A t \in ScanCommands : scans[t].pc = "check" => scans[t].prior = "none"
    /\ \A c \in DOMAIN cache : known[c] # "none" => cache[c] = (known[c] = "yes")

(***************************************************************************)
(* Properties of the cache and of the configuration                        *)
(***************************************************************************)
\* C7: the step in which a setting of the extension or the list of workspace
\* folders changes leaves the cache without any entry; no other step removes
\* an entry from the cache.
C7_WholesaleInvalidation ==
    [][IF settings' # settings \/ workspaceFolders' # workspaceFolders
       THEN cache' = EmptyCache
       ELSE DOMAIN cache \subseteq DOMAIN cache']_vars

\* the one change so far is that of a setting, made after a scan of the
\* minimal variant had queued, and so cached, a component
C7_Witness ==
    /\ lastMessage.text = "configuration updated"
    /\ changes = 1
    /\ variant = "minimal"
    /\ pendingComponents # <<>>
    /\ cache = EmptyCache

\* C8: once a clear has removed the entry of a component, the cache never
\* again answers for it with the result of a stat made before that clear,
\* not even when a check of the component was awaiting its stat at the clear.
C8_RecomputedAfterClear == staleEntries = {}

\* the pattern the scans use
ImportRegexInUse == GetConfig(settings).importRegex

\* C9: once the updates in flight are applied, the scans use the pattern the
\* user has set.
C9_OverridePrecedence ==
    (userRegex # <<>> /\ pendingUpdates = <<>>) => ImportRegexInUse = userRegex[1]

\* C10: with no pattern set by the user and the folders set, once the updates
\* in flight are applied the scans use a pattern that recognises exactly the
\* configured folders.
C10_DefaultFollowsFolders ==
    (userRegex = <<>> /\ userFolders /\ pendingUpdates = <<>>) =>
        \A f \in FolderNames :
            Recognises(ImportRegexInUse, f)
                <=> f \in Range(GetConfig(settings).componentFolders)

\* C11: with the disk and the settings as they are, the answer of every
\* installed-check made is true exactly when a file of the component, with
\* a supported extension, exists in one of the configured folders.
C11_InstalledCheck ==
    \A c \in Components :
        known[c] # "none" =>
            ((known[c] = "yes") <=> OnDisk(disk, GetConfig(settings), c))

(***************************************************************************)
(* Properties of the scans when something fails                            *)
(***************************************************************************)
\* what the user is shown when scan t ends with this error
Shown(t, error) == Throw(t, [error |-> "", pc |-> "walk"], error).error

\* scan t is about to apply the pattern to a file
AtFile(t) ==
    /\ scans[t].pc = "walk"
    /\ ~IsDirectory(Head(scans[t].work))

\* C12: a scan that applies a pattern that does not compile to a file ends
\* there with the error shown, and not with a result; the step changes
\* neither the pending queue nor the cache, and when no other command
\* changed the queue meanwhile the queue is what it was when the scan
\* started: nothing from the files read before is queued.
C12_MalformedPattern ==
    /\ [][\A t \in ScanCommands :
            (Acting(t) /\ AtFile(t) /\ GetConfig(settings).importRegex = MalformedRegex)
                => /\ scans'[t].pc = "done"
                   /\ lastMessage'.text = Shown(t, InvalidRegularExpression)
                   /\ UNCHANGED <<pendingComponents, statusBarItem, cache>>]_vars
    /\ [](\A t \in ScanCommands :
            (Finished(t) /\ lastMessage.text = Shown(t, InvalidRegularExpression))
                => /\ scans[t].notInstalled = {}
                   /\ scans[t].alone => Range(pendingComponents) = scans[t].before)
    /\ [][\A t \in ScanCommands :
            (Acting(t) /\ scans'[t].pc = "walk")
                => UNCHANGED <<pendingComponents, statusBarItem, cache>>]_vars

\* a workspace scan has read a file that imports components, and then meets
\* a pattern that does not compile
C12_Witness ==
    /\ Finished(WorkspaceScan)
    /\ lastMessage.text = Shown(WorkspaceScan, InvalidRegularExpression)
    /\ scans[WorkspaceScan].components # <<>>
    /\ pendingComponents = <<>>
    /\ cache = EmptyCache

\* C13: a scan does not end with the failure of a read while files or
\* directories other than the one that failed remain to be read.
C13_ReadFailureNotFatal ==
    \A t \in ScanCommands :
        (Finished(t) /\ lastMessage.text = Shown(t, EntryNotFound))
            => Len(scans[t].work) <= 1

\* C14: with no workspace root the cache holds no false entry: the change of
\* the workspace folders cleared it, and a check made since has not reached
\* a result.
C14_FailedLookupNotCached ==
    workspaceFolders = <<>> => \A c \in DOMAIN cache : cache[c]

NoWorkspaceFolderFound == "No workspace folder found"

\* C15: with no workspace folder open, the file scan and the workspace scan
\* show an error and start nothing; a request to install the pending
\* components, made with a non-empty queue and no drain in flight, hands
\* nothing to the terminal, and ends with the error shown, the queue as it
\* was and the in-flight flag false.
C15_NoWorkspaceRoot ==
    /\ [][workspaceFolders = <<>> =>
            /\ (\E uri \in ScanTargets, answer \in {"Yes", "No"} :
                    InstallShadcnComponents(uri, answer))
                => /\ lastMessage'.text =
                        NoWorkspaceFolderFound \o ". Please open a project folder."
                   /\ UNCHANGED <<scans, pendingComponents, cache, terminal>>
            /\ ScanWorkspaceForShadcnComponents
                => /\ lastMessage'.text =
                        "Error scanning workspace: " \o NoWorkspaceFolderFound
                   /\ UNCHANGED <<scans, pendingComponents, cache, terminal>>
            /\ (pendingComponents # <<>> /\ ~isInstalling
                    /\ \E sendTextThrows \in BOOLEAN :
                            InstallPendingComponents(sendTextThrows))
                => /\ drains' = <<[pc |-> "rejected", components |-> pendingComponents]>>
                   /\ UNCHANGED <<pendingComponents, statusBarItem, terminal>>]_vars
    /\ [][\A i \in DOMAIN drains :
            (drains[i].pc = "rejected" /\ InstallResume(i))
                => /\ lastMessage'.text =
                        "Error installing components: " \o NoWorkspaceFolderFound
                   /\ ~isInstalling'
                   /\ drains' = <<>>
                   /\ UNCHANGED <<pendingComponents, statusBarItem, terminal>>]_vars

C15_Witness ==
    /\ workspaceFolders = <<>>
    /\ lastMessage.text = "Error installing components: " \o NoWorkspaceFolderFound
    /\ Len(pendingComponents) = 2
    /\ statusBarItem.shown
    /\ terminal = <<>>
    /\ ~isInstalling

\* C16: with a workspace folder open and no components.json in it, a scan
\* command reads no file and queues nothing, whatever the user answers to
\* the offer to initialise: no scan starts.
C16_UninitialisedProject ==
    [][(/\ ~componentsJson
        /\ workspaceFolders # <<>>
        /\ \/ \E uri \in ScanTargets, answer \in {"Yes", "No"} :
                    InstallShadcnComponents(uri, answer)
           \/ ScanWorkspaceForShadcnComponents)
            => UNCHANGED <<scans, pendingComponents, cache>>]_vars

\* scan t has run to its end a second time over the same candidates, and
\* since the first run started no file and no setting changed, no drain
\* completed and no other command changed the queue under the second run
SecondRun(t) ==
    /\ Finished(t)
    /\ lastMessage.text \in FinishTexts
    /\ scans[t].rerun
    /\ scans[t].last = Range(scans[t].components)
    /\ scans[t].clean
    /\ scans[t].alone

\* C17: the second of two runs of a scan command over the same candidates,
\* with no disk change, no configuration change and no drain in between,
\* leaves the pending queue as it found it.
C17_Idempotence ==
    \A t \in ScanCommands :
        SecondRun(t) => Range(pendingComponents) = scans[t].before

\* the invocation verb the install command is to start with
Verb ==
    CASE Get(settings.packageManager, "npm") = "npm" -> <<"npx">>
      [] Get(settings.packageManager, "npm") = "pnpm" -> <<"pnpm", "dlx">>
      [] Get(settings.packageManager, "npm") = "bun" -> <<"bunx">>

\* the configured component folder, the first one when several are configured
TargetFolder ==
    IF variant = "rich" THEN Get(settings.componentFolders, <<"ui">>)[1]
    ELSE Get(settings.componentFolder, "shadcn")

\* the words of the emitted text after cd "<rootPath>" &&
Emitted(text) == SubSeq(text, 4, Len(text))

\* C18: for npm, pnpm and bun the emitted install command is npx, pnpm dlx and
\* bunx, followed by shadcn-ui@latest add, the queued identifiers in order,
\* and --path components/<targetFolder>, targetFolder being the configured
\* component folder (the first one when several are configured).
C18_InstallCommandFormat ==
    [][(\E sendTextThrows \in BOOLEAN : InstallPendingComponents(sendTextThrows))
         /\ terminal' # terminal
       => /\ Len(terminal') = Len(terminal) + 1
          /\ Emitted(terminal'[Len(terminal')]) =
                Verb \o <<"shadcn-ui@latest", "add">> \o pendingComponents
                     \o <<"--path", "components/" \o TargetFolder>>]_vars

\* a command was emitted under bun for two identifiers with several folders
\* configured
C18_Witness ==
    /\ terminal # <<>>
    /\ settings.packageManager = <<"bun">>
    /\ settings.componentFolders = << <<"ui", "shadcn">> >>
    /\ Len(CommandComponents(terminal[1])) = 2

NoPendingComponents == "No pending shadcn components to install."

\* C19: an install request made while the pending queue is empty is refused
\* with a message: it emits no command, does not set the in-flight flag and
\* changes no state; every emitted install command names at least one
\* identifier.
C19_NoEmptyCommand ==
    /\ [][(\E sendTextThrows \in BOOLEAN : InstallPendingComponents(sendTextThrows))
            /\ pendingComponents = <<>>
          => /\ lastMessage'.text = NoPendingComponents
             /\ UNCHANGED <<variant, tree, document, imports, settings, currentConfig, pendingUpdates,
                            workspaceFolders, componentsJson, disk, cache,
                            pendingComponents, statusBarItem, isInstalling,
                            drains, terminal, scans>>]_vars
    /\ [](\A i \in DOMAIN terminal : CommandComponents(terminal[i]) # <<>>)

\* a request was refused for an empty queue after a drain had emptied it
C19_Witness ==
    /\ lastMessage.text = NoPendingComponents
    /\ pendingComponents = <<>>
    /\ terminal # <<>>

\* C20: whenever no handler step is executing, the status bar item is visible
\* if and only if the pending queue is non-empty, and when visible the count
\* it displays is the size of the pending queue.
C20_PendingIndicator ==
    MicrotasksDrained =>
        /\ statusBarItem.shown <=> pendingComponents # <<>>
        /\ statusBarItem.shown => statusBarItem.count = Len(pendingComponents)

\* the item is visible again for a queue refilled after a drain had hidden it
C20_Witness ==
    /\ MicrotasksDrained
    /\ terminal # <<>>
    /\ drains = <<>>
    /\ statusBarItem.shown
    /\ statusBarItem.count = Len(pendingComponents)

\* the clear that follows the command hand-off of an install run
ClearAfterHandOff ==
    \E i \in DOMAIN drains : InstallResume(i) /\ drains[i].pc = "resolved"

\* C24: the pending queue is empty at startup, and in every step other than
\* the clear that follows the command hand-off of an install run every
\* identifier in the queue before the step is still in it after the step.
C24_OnlyDrainShrinks ==
    /\ pendingComponents = <<>>
    /\ [][ClearAfterHandOff
          \/ Range(pendingComponents) \subseteq Range(pendingComponents')]_vars

\* the queue holds two identifiers after a clear had emptied it, a refused
\* request and a configuration change
C24_Witness ==
    /\ terminal # <<>>
    /\ drains = <<>>
    /\ Len(pendingComponents) = 2
    /\ changes > 0

\* C25: the count of newly queued components a workspace scan reports is the
\* number of identifiers that scan added to the pending queue: the size of the
\* queue after the scan minus its size before it.
C25_ReportedCount ==
    Finished(WorkspaceScan)
        /\ lastMessage.text = "Found shadcn components."
        /\ scans[WorkspaceScan].alone
    => lastMessage.queued =
            Len(pendingComponents) - Cardinality(scans[WorkspaceScan].before)

\* uri is a file whose name ends in one of the source extensions
SourceFile(uri) ==
    \E dir \in DOMAIN tree :
        \E n \in DOMAIN ReadDirectory(dir) :
            LET entry == ReadDirectory(dir)[n]
            IN /\ JoinPath(dir, entry.name) = uri
               /\ entry.type = "File"
               /\ entry.ext \in Range(Extensions)

\* C26: the matcher is only applied to files whose name ends in .tsx or .jsx,
\* in a directory scan and for a single file passed to the file scan: reading
\* a file with any other extension adds no identifier to the candidates of the
\* scan and none to the pending queue.
C26_EligibilityFilter ==
    [][\A t \in ScanCommands :
          WalkStep(t) /\ ~IsDirectory(Head(scans[t].work))
                      /\ ~SourceFile(Head(scans[t].work))
          => /\ Range(scans'[t].components) \subseteq Range(scans[t].components)
             /\ pendingComponents' = pendingComponents]_vars

\* C27: every identifier that a drain removes from the pending queue was
\* listed in the command that drain emitted, also when a scan adds
\* identifiers while the drain is in its wait.
C27_DrainLosesNothing ==
    [][\A i \in DOMAIN drains :
          InstallResume(i) /\ drains[i].pc = "resolved"
          => Range(pendingComponents) \ Range(pendingComponents')
                \subseteq Range(drains[i].components)]_vars

\* the candidates among components that checkComponentInstalled answers false
\* for with the files and the settings as they are
NotInstalledCandidates(components) ==
    {c \in components :
        \A k \in DOMAIN Probes(GetConfig(settings), c) :
            ~Stat(Probes(GetConfig(settings), c)[k])}

\* the candidates of the run of command t in progress and of its last run
Candidates(t) == Range(scans[t].components) \cup scans[t].last

\* at most two scans were started since activation, t has run to its end and
\* no other is running
BothScansOver(t) ==
    /\ Finished(t)
    /\ \A u \in ScanCommands \ {t} : scans[u].pc = "idle"
    /\ triggers <= 2

\* C28: two scans started in any order and interleaved at their awaits, with
\* no drain, no file change and no setting change during them, leave the
\* pending queue as the initial queue plus the not-installed candidates of
\* both, as running them one after the other does.
C28_ScansCommute ==
    \A t \in ScanCommands :
        BothScansOver(t) =>
            Range(pendingComponents) =
                UNION {NotInstalledCandidates(Candidates(u)) : u \in ScanCommands}

\* the file scan ends after the workspace scan, which ran during it, queued a
\* component of its own
C28_Witness ==
    /\ BothScansOver(FileScan)
    /\ ~scans[FileScan].alone
    /\ scans[WorkspaceScan].last # {}
    /\ Len(pendingComponents) = 2

\* the configuration as the settings store it (rich variant)
StoredConfig ==
    LET componentFolders == Get(settings.componentFolders, <<"ui">>)
    IN [componentFolders |-> componentFolders,
        importRegex |-> Get(settings.importRegex, GeneratedRegex(componentFolders)),
        packageManager |-> Get(settings.packageManager, "npm")]

\* no write of importRegex is outstanding and currentConfig is what is stored
Settled ==
    /\ pendingUpdates = <<>>
    /\ variant = "rich" => currentConfig = StoredConfig

\* C29: after a user change of a setting the handlers write importRegex only
\* finitely often: from some point on no write is outstanding and the
\* in-memory configuration equals the stored configuration.
C29_ConfigurationSettles == (changes > 0) ~> []Settled

\* the handlers wrote importRegex after the user changed the folders, and the
\* configuration has settled
C29_Witness ==
    /\ variant = "rich"
    /\ changes > 0
    /\ userRegex = <<>>
    /\ settings.importRegex # <<>>
    /\ Settled

\* the statements of the document the configured pattern matches
Matches ==
    {document[n] : n \in {m \in DOMAIN document :
        document[m].folder \in Range(GetConfig(settings).componentFolders)}}

\* C21: parseImports returns exactly the distinct component files of the
\* matches in the text: one identifier per component file, however many
\* symbols are imported from it and however many statements import it, and
\* none when nothing matches.
C21_MatcherResult ==
    imports # <<>> =>
        /\ Range(imports[1]) = {match.file : match \in Matches}
        /\ Len(imports[1]) = Cardinality(Range(imports[1]))

\* two statements import three symbols from two component files, and the
\* result names the two files
C21_Witness ==
    /\ imports # <<>>
    /\ Len(imports[1]) = 2
    /\ \E match \in Matches : Len(match.symbols) = 2
    /\ \A n \in DOMAIN document : document[n] \in Matches

\* C22: every identifier parseImports produces is the bare component name:
\* the captured text without leading path segments and without an extension.
C22_BareName ==
    imports # <<>> =>
        Range(imports[1]) = {match.specifier.name : match \in Matches}

\* what the matcher finds in the source files under uri at every depth (in
\* the file uri itself when it is no directory)
RECURSIVE Aggregate(_)
Aggregate(uri) ==
    IF uri \in DOMAIN tree
    THEN UNION {Aggregate(JoinPath(uri, tree[uri][n].name)) :
                    n \in {m \in DOMAIN tree[uri] :
                            \/ tree[uri][m].type = "Directory"
                            \/ /\ tree[uri][m].type = "File"
                               /\ tree[uri][m].ext \in {"tsx", "jsx"}}}
    ELSE {match.file : match \in
            {GetText(uri)[n] : n \in {m \in DOMAIN GetText(uri) :
                GetText(uri)[m].folder
                    \in Range(GetConfig(settings).componentFolders)}}}

\* the reads of scan t are over and none failed
Scanned(t) ==
    \/ scans[t].pc = "check"
    \/ Finished(t) /\ lastMessage.text \in FinishTexts

\* C23: the scan of a directory returns exactly the union of the matcher's
\* results over the .tsx and .jsx files under it at every depth, without
\* duplicates, and the empty set without an error when there are none; the
\* workspace scan returns the union over all workspace roots.
C23_ScanAggregation ==
    \A t \in ScanCommands :
        /\ Scanned(t) =>
            /\ Range(scans[t].components) =
                    UNION {Aggregate(root) : root \in Range(scans[t].roots)}
            /\ Len(scans[t].components) = Cardinality(Range(scans[t].components))
        /\ Finished(t) /\ scans[t].roots # <<>> /\ scans[t].components = <<>>
            => lastMessage.text \in FinishTexts

\* the workspace scan of two roots has found the component that only a file
\* three directories below the first root imports, the second root being
\* empty
C23_Witness ==
    /\ Finished(WorkspaceScan)
    /\ scans[WorkspaceScan].roots = <<"app", "lib">>
    /\ tree["lib"] = <<>>
    /\ "app/pages/admin/users" \in DOMAIN tree
    /\ "App.tsx" \notin {tree["app"][n].name : n \in DOMAIN tree["app"]}
    /\ Range(scans[WorkspaceScan].components) = {"card"}

====
